---------------------------- MODULE Spec2Model ----------------------------
(***************************************************************************)
(* check-xml-table/main.py: the marker-prefix rewriter for MyBatis XML.    *)
(*                                                                         *)
(* Text is modelled character by character: a Python str is a sequence of  *)
(* one-character strings, a regular expression is the predicate "the       *)
(* pattern matches the text at position i", and re.subn / re.finditer are  *)
(* the left-to-right scans for non-overlapping matches.                    *)
(*                                                                         *)
(* mcp-anki-maker: the add-words-batch tool, the audio files of            *)
(* AudioService and the cleanup at exit follow the rewriter, with their    *)
(* own variables; each program leaves the variables of the other alone.    *)
(***************************************************************************)
EXTENDS Integers, Sequences, FiniteSets, TLC

(***************************************************************************)
(* Characters                                                              *)
(***************************************************************************)
UpperOf ==
    [a |-> "A", b |-> "B", c |-> "C", d |-> "D", e |-> "E", f |-> "F",
     g |-> "G", h |-> "H", i |-> "I", j |-> "J", k |-> "K", l |-> "L",
     m |-> "M", n |-> "N", o |-> "O", p |-> "P", q |-> "Q", r |-> "R",
     s |-> "S", t |-> "T", u |-> "U", v |-> "V", w |-> "W", x |-> "X",
     y |-> "Y", z |-> "Z"]

LowerLetters == DOMAIN UpperOf

UpperLetters == {UpperOf[ch] : ch \in LowerLetters}

Digits == <<"0", "1", "2", "3", "4", "5", "6", "7", "8", "9">>

DigitChars == {Digits[d] : d \in 1..Len(Digits)}

\* \w of the re module (ASCII part)
IsWord(ch) == ch \in LowerLetters \cup UpperLetters \cup DigitChars \cup {"_"}

\* \s of the re module (ASCII part)
IsSpace(ch) == ch \in {" ", "\t", "\n", "\r", "\f"}

\* str.upper() on one character
Upper(ch) == IF ch \in LowerLetters THEN UpperOf[ch] ELSE ch

\* str.upper()
UpperStr(str) == [idx \in 1..Len(str) |-> Upper(str[idx])]

\* str.lower() on one character
Lower(ch) ==
    IF ch \in UpperLetters THEN CHOOSE l \in LowerLetters : UpperOf[l] = ch ELSE ch

\* str.lower()
LowerStr(str) == [idx \in 1..Len(str) |-> Lower(str[idx])]

\* two characters are equal under re.IGNORECASE
EqIC(c1, c2) == Upper(c1) = Upper(c2)

(***************************************************************************)
(* Constants of the program                                                *)
(***************************************************************************)
PREFIX == <<"c", "e", "d", "_", "t", "o", "d", "o", "_">>

\* the keywords an alias may not be (the list of the alias check)
ReservedWords ==
    { <<"W","H","E","R","E">>, <<"S","E","T">>, <<"V","A","L","U","E","S">>,
      <<"O","N">>, <<"A","N","D">>, <<"O","R">>, <<"A","S">>,
      <<"O","R","D","E","R">>, <<"G","R","O","U","P">>, <<"B","Y">>,
      <<"L","E","F","T">>, <<"R","I","G","H","T">>, <<"I","N","N","E","R">>,
      <<"O","U","T","E","R">>, <<"J","O","I","N">> }

\* the keywords that open an alias declaration
DeclKeywords ==
    { <<"F","R","O","M">>, <<"J","O","I","N">>, <<"U","P","D","A","T","E">> }

(***************************************************************************)
(* Regular-expression primitives                                           *)
(***************************************************************************)
\* the literal lit (re.escape'd text) matches str at position pos, ignoring case
MatchLit(str, pos, lit) ==
    /\ pos >= 1
    /\ pos + Len(lit) - 1 <= Len(str)
    /\ \A idx \in 1..Len(lit) : EqIC(str[pos + idx - 1], lit[idx])

\* a \w character stands right before position pos: (?<!\w) fails
WordBefore(str, pos) == pos > 1 /\ pos - 1 <= Len(str) /\ IsWord(str[pos - 1])

\* a \w character stands at position pos: (?!\w) fails
WordAt(str, pos) == pos >= 1 /\ pos <= Len(str) /\ IsWord(str[pos])

\* the marker stands right before position pos: (?<!ced_todo_) fails
PrefixBefore(str, pos) ==
    pos > Len(PREFIX) /\ MatchLit(str, pos - Len(PREFIX), PREFIX)

SpaceAt(str, pos) == pos >= 1 /\ pos <= Len(str) /\ IsSpace(str[pos])

\* the position after a greedy \s* that starts at pos
RECURSIVE SkipSpaces(_, _)
SkipSpaces(str, pos) ==
    IF SpaceAt(str, pos) THEN SkipSpaces(str, pos + 1) ELSE pos

\* the position after a greedy \w* that starts at pos
RECURSIVE SkipWord(_, _)
SkipWord(str, pos) ==
    IF WordAt(str, pos) THEN SkipWord(str, pos + 1) ELSE pos

(***************************************************************************)
(* The compiled patterns.  A compiled pattern is a record that keeps the   *)
(* names it was built from; MatchEnd gives the position after the match of *)
(* a pattern at a position (0: no match there).                            *)
(***************************************************************************)
NoMatch == [end |-> 0, group2 |-> <<>>, group4 |-> <<>>, group5 |-> <<>>]

create_alias_pattern(table_name) ==
    [kind |-> "alias", table_name |-> table_name]

create_direct_usage_pattern_for_replace(table_name, column_name) ==
    [kind |-> "direct", table_name |-> table_name, column_name |-> column_name]

create_alias_usage_pattern_for_replace(alias, column_name) ==
    [kind |-> "alias_usage", alias |-> alias, column_name |-> column_name]

create_resultmap_column_pattern_for_replace(column_name) ==
    [kind |-> "resultmap", column_name |-> column_name]

kAS == <<"A", "S">>

kColumn == <<"c", "o", "l", "u", "m", "n">>

Quotes == {"\"", "'"}

\* the least and the greatest element of a set of positions, 0 for none
FirstOf(hits) ==
    IF hits = {} THEN 0 ELSE CHOOSE q \in hits : \A q2 \in hits : q <= q2

LastOf(hits) ==
    IF hits = {} THEN 0 ELSE CHOOSE q \in hits : \A q2 \in hits : q2 <= q

\* (\b\w+\b) tried at pos: <<start, end>> of the captured word, or <<0, 0>>
AliasWord(str, pos) ==
    IF WordAt(str, pos) THEN <<pos, SkipWord(str, pos)>> ELSE <<0, 0>>

\* (?:AS\s+)?(\b\w+\b) tried at pos; without a word after "AS " the optional
\* group matches nothing and the word is tried at pos itself
AliasTokenFrom(str, pos) ==
    IF /\ MatchLit(str, pos, kAS)
       /\ SpaceAt(str, pos + Len(kAS))
       /\ WordAt(str, SkipSpaces(str, pos + Len(kAS)))
    THEN AliasWord(str, SkipSpaces(str, pos + Len(kAS)))
    ELSE AliasWord(str, pos)

\* \s+(?:AS\s+)?(\b\w+\b) tried at pos, the position after the table name
AliasToken(str, pos) ==
    IF SpaceAt(str, pos) THEN AliasTokenFrom(str, SkipSpaces(str, pos))
    ELSE <<0, 0>>

\* table\s+(?:AS\s+)?(\b\w+\b) matches at pos
TableAliasAt(table_name, str, pos) ==
    /\ MatchLit(str, pos, table_name)
    /\ AliasToken(str, pos + Len(table_name))[1] > 0

\* the match object of the main form, tok the captured word
MainGroups(str, tok) ==
    [end |-> tok[2], group2 |-> SubSeq(str, tok[1], tok[2] - 1),
     group4 |-> <<>>, group5 |-> <<>>]

\* the main form with its table name at pos, 0 for no place
MainAt(table_name, str, pos) ==
    IF pos = 0 THEN NoMatch
    ELSE MainGroups(str, AliasToken(str, pos + Len(table_name)))

\* the length of the keyword FROM, JOIN or UPDATE that stands at pos, or 0
KeywordLen(str, pos) ==
    IF \E kw \in DeclKeywords : MatchLit(str, pos, kw)
    THEN Len(CHOOSE kw \in DeclKeywords : MatchLit(str, pos, kw))
    ELSE 0

\* \s+table\s+(?:AS\s+)?(\b\w+\b) tried at pos, the position after the keyword.
\* The first \s+ is greedy and gives spaces back until the rest matches.
MainAfterKeyword(table_name, str, pos) ==
    MainAt(table_name, str,
           LastOf({b \in (pos + 1)..SkipSpaces(str, pos) :
                      TableAliasAt(table_name, str, b)}))

\* (?:FROM|JOIN|UPDATE)\s+table\s+(?:AS\s+)?(\b\w+\b): group 2 is the word
AliasPatternMain(table_name, str, pos) ==
    IF KeywordLen(str, pos) > 0
    THEN MainAfterKeyword(table_name, str, pos + KeywordLen(str, pos))
    ELSE NoMatch

\* the match object of the other form, tok the captured word
AltGroups(str, pos, tok) ==
    [end |-> tok[2], group2 |-> <<>>, group4 |-> <<str[pos]>>,
     group5 |-> SubSeq(str, tok[1], tok[2] - 1)]

\* ([,\s])table\s+(?:AS\s+)?(\b\w+\b): group 4 is the separator, group 5 the word
AliasPatternAlt(table_name, str, pos) ==
    IF /\ pos <= Len(str)
       /\ (str[pos] = "," \/ IsSpace(str[pos]))
       /\ TableAliasAt(table_name, str, pos + 1)
    THEN AltGroups(str, pos, AliasToken(str, pos + 1 + Len(table_name)))
    ELSE NoMatch

\* the combined pattern "(main)|(alt)" at pos: the first alternative that matches
AliasPatternMatch(pattern, str, pos) ==
    IF AliasPatternMain(pattern.table_name, str, pos).end > 0
    THEN AliasPatternMain(pattern.table_name, str, pos)
    ELSE AliasPatternAlt(pattern.table_name, str, pos)

\* the leftmost position from pos on where the alias pattern matches, or 0
NextAliasMatch(pattern, str, pos) ==
    FirstOf({q \in pos..Len(str) : AliasPatternMatch(pattern, str, q).end > 0})

\* pattern.finditer(str): the matches from left to right, none overlapping
RECURSIVE FindIterFrom(_, _, _)
FindIterAt(pattern, str, mt) ==
    IF mt.end = 0 THEN <<>> ELSE <<mt>> \o FindIterFrom(pattern, str, mt.end)

FindIterFrom(pattern, str, pos) ==
    IF NextAliasMatch(pattern, str, pos) = 0 THEN <<>>
    ELSE FindIterAt(pattern, str,
            AliasPatternMatch(pattern, str, NextAliasMatch(pattern, str, pos)))

finditer(pattern, str) == FindIterFrom(pattern, str, 1)

\* (?<!ced_todo_)(table)\.(column): the direct pattern less its (?<!\w) and
\* its (?!\w)
DirectMatchEndUnbounded(pattern, str, pos) ==
    LET lit == pattern.table_name \o <<".">> \o pattern.column_name
    IN  IF /\ ~PrefixBefore(str, pos)
           /\ MatchLit(str, pos, lit)
        THEN pos + Len(lit)
        ELSE 0

\* (?<!ced_todo_)(?<!\w)(table)\.(column)(?!\w)
DirectMatchEnd(pattern, str, pos) ==
    LET lit == pattern.table_name \o <<".">> \o pattern.column_name
    IN  IF /\ ~PrefixBefore(str, pos)
           /\ ~WordBefore(str, pos)
           /\ MatchLit(str, pos, lit)
           /\ ~WordAt(str, pos + Len(lit))
        THEN pos + Len(lit)
        ELSE 0

\* (?<!\w)(alias)\.(?<!ced_todo_)(column)(?!\w)
AliasUsageMatchEnd(pattern, str, pos) ==
    LET dot == pos + Len(pattern.alias)
        fin == dot + 1 + Len(pattern.column_name)
    IN  IF /\ ~WordBefore(str, pos)
           /\ MatchLit(str, pos, pattern.alias \o <<".">>)
           /\ ~PrefixBefore(str, dot + 1)
           /\ MatchLit(str, dot + 1, pattern.column_name)
           /\ ~WordAt(str, fin)
        THEN fin
        ELSE 0

\* ["'] stands at position pos
QuoteAt(str, pos) == pos >= 1 /\ pos <= Len(str) /\ str[pos] \in Quotes

\* =\s*["'] tried at pos: the position of the quote, or 0
EqualsQuote(str, pos) ==
    IF MatchLit(str, pos, <<"=">>) /\ QuoteAt(str, SkipSpaces(str, pos + 1))
    THEN SkipSpaces(str, pos + 1)
    ELSE 0

\* the position of the opening quote of (\bcolumn\s*=\s*["']) tried at pos, or 0
ResultMapQuote(str, pos) ==
    IF ~WordBefore(str, pos) /\ MatchLit(str, pos, kColumn)
    THEN EqualsQuote(str, SkipSpaces(str, pos + Len(kColumn)))
    ELSE 0

\* (?<!ced_todo_)(column)(["']) after the opening quote at qt: the end, or 0
QuotedColumnEnd(column_name, str, qt) ==
    IF /\ qt > 0
       /\ ~PrefixBefore(str, qt + 1)
       /\ MatchLit(str, qt + 1, column_name)
       /\ QuoteAt(str, qt + 1 + Len(column_name))
    THEN qt + 2 + Len(column_name)
    ELSE 0

\* (\bcolumn\s*=\s*["'])(?<!ced_todo_)(column)(["'])
ResultMapMatchEnd(pattern, str, pos) ==
    QuotedColumnEnd(pattern.column_name, str, ResultMapQuote(str, pos))

MatchEnd(pattern, str, pos) ==
    CASE pattern.kind = "direct" -> DirectMatchEnd(pattern, str, pos)
      [] pattern.kind = "alias_usage" -> AliasUsageMatchEnd(pattern, str, pos)
      [] pattern.kind = "resultmap" -> ResultMapMatchEnd(pattern, str, pos)

\* PREFIX\1.PREFIX\2 for a match of Len(table) + 1 + Len(column) characters
ExpandDirect(str, pos, lt, lc) ==
    PREFIX \o SubSeq(str, pos, pos + lt - 1) \o <<".">>
           \o PREFIX \o SubSeq(str, pos + lt + 1, pos + lt + lc)

\* \1.PREFIX\2
ExpandAliasUsage(str, pos, la, lc) ==
    SubSeq(str, pos, pos + la - 1) \o <<".">>
        \o PREFIX \o SubSeq(str, pos + la + 1, pos + la + lc)

\* \1PREFIX\2\3, qt the position of the opening quote
ExpandResultMap(str, pos, qt, lc) ==
    SubSeq(str, pos, qt) \o PREFIX
        \o SubSeq(str, qt + 1, qt + lc) \o <<str[qt + lc + 1]>>

\* the replacement templates, expanded for the match at pos
Expand(pattern, str, pos) ==
    CASE pattern.kind = "direct" ->
            ExpandDirect(str, pos, Len(pattern.table_name), Len(pattern.column_name))
      [] pattern.kind = "alias_usage" ->
            ExpandAliasUsage(str, pos, Len(pattern.alias), Len(pattern.column_name))
      [] pattern.kind = "resultmap" ->
            ExpandResultMap(str, pos, ResultMapQuote(str, pos),
                            Len(pattern.column_name))

\* the leftmost position from pos on where the pattern matches, or 0
NextMatch(pattern, str, pos) ==
    FirstOf({q \in pos..Len(str) : MatchEnd(pattern, str, q) > 0})

\* one replacement put before the result for the rest of the string
SubnJoin(head, rest) == [text |-> head \o rest.text, count |-> rest.count + 1]

\* pattern.subn(repl, str): the new text and the number of replacements
RECURSIVE SubnFrom(_, _, _)
SubnAt(pattern, str, pos, at) ==
    IF at = 0
    THEN [text |-> SubSeq(str, pos, Len(str)), count |-> 0]
    ELSE SubnJoin(SubSeq(str, pos, at - 1) \o Expand(pattern, str, at),
                  SubnFrom(pattern, str, MatchEnd(pattern, str, at)))

SubnFrom(pattern, str, pos) == SubnAt(pattern, str, pos, NextMatch(pattern, str, pos))

subn(pattern, str) == SubnFrom(pattern, str, 1)

(***************************************************************************)
(* parse_target_columns.  The target map is a dict: here the sequence of   *)
(* its items, in insertion order, each [table, columns].                   *)
(***************************************************************************)
\* the leftmost exact occurrence of old in str from pos on, or 0
NextOccurrence(str, old, pos) ==
    FirstOf({q \in pos..(Len(str) - Len(old) + 1) :
                SubSeq(str, q, q + Len(old) - 1) = old})

\* str.replace(old, ''), old not empty
RECURSIVE RemoveFrom(_, _, _)
RemoveAt(str, old, pos, at) ==
    IF at = 0 THEN SubSeq(str, pos, Len(str))
    ELSE SubSeq(str, pos, at - 1) \o RemoveFrom(str, old, at + Len(old))

RemoveFrom(str, old, pos) == RemoveAt(str, old, pos, NextOccurrence(str, old, pos))

StrReplace(str, old) == RemoveFrom(str, old, 1)

\* the positions of str that hold no white space
NonSpaces(str) == {q \in 1..Len(str) : ~IsSpace(str[q])}

\* str.strip()
Strip(str) ==
    IF NonSpaces(str) = {} THEN <<>>
    ELSE SubSeq(str, FirstOf(NonSpaces(str)), LastOf(NonSpaces(str)))

\* the position of the last '.' of str, or 0
LastDot(str) == LastOf({q \in 1..Len(str) : str[q] = "."})

HasTable(map, table) == \E idx \in 1..Len(map) : map[idx].table = table

\* map[table], for a table the map holds
ColumnsOf(map, table) ==
    map[CHOOSE idx \in 1..Len(map) : map[idx].table = table].columns

\* table_column_map[table].append(column) on a defaultdict(list)
MapAppend(map, table, column) ==
    IF HasTable(map, table)
    THEN [idx \in 1..Len(map) |->
            IF map[idx].table = table
            THEN [table |-> table, columns |-> Append(map[idx].columns, column)]
            ELSE map[idx]]
    ELSE Append(map, [table |-> table, columns |-> <<column>>])

\* table_name, column_name = parts of spec.strip().rsplit('.', 1), dot the
\* position of the last '.'; both must be non-empty, else the spec is skipped
AddSpec(map, parts, dot) ==
    IF dot <= 1 \/ dot = Len(parts) THEN map
    ELSE MapAppend(map, StrReplace(SubSeq(parts, 1, dot - 1), PREFIX),
                        StrReplace(SubSeq(parts, dot + 1, Len(parts)), PREFIX))

\* one spec of the list: skipped unless it holds a '.'
AddStripped(map, parts) == AddSpec(map, parts, LastDot(parts))

RECURSIVE ParseFrom(_, _, _)
ParseFrom(column_specs, idx, map) ==
    IF idx > Len(column_specs) THEN map
    ELSE ParseFrom(column_specs, idx + 1,
                   AddStripped(map, Strip(column_specs[idx])))

parse_target_columns(column_specs) == ParseFrom(column_specs, 1, <<>>)

(***************************************************************************)
(* process_and_modify_file: the helpers of the per-line loop               *)
(***************************************************************************)
\* replace_patterns[key] = pattern on the items of the dict in insertion
\* order: storing under a key the dict already holds keeps the key's place
\* (the pattern stored again is the same, it is compiled from the key's names)
PutPattern(items, key, pattern) ==
    IF \E q \in 1..Len(items) : items[q].key = key
    THEN items
    ELSE Append(items, [key |-> key, pattern |-> pattern])

\* the two entries of one column: keys (table, col, 'direct') and (col, 'resultmap')
PutColumn(items, table, col) ==
    PutPattern(PutPattern(items, <<table, col, "direct">>,
                          create_direct_usage_pattern_for_replace(table, col)),
               <<col, "resultmap">>,
               create_resultmap_column_pattern_for_replace(col))

RECURSIVE AddPatterns(_, _, _, _)
AddPatterns(map, ti, ci, items) ==
    IF ti > Len(map) THEN items
    ELSE IF ci > Len(map[ti].columns) THEN AddPatterns(map, ti + 1, 1, items)
    ELSE AddPatterns(map, ti, ci + 1,
                     PutColumn(items, map[ti].table, map[ti].columns[ci]))

replace_patterns(map) == AddPatterns(map, 1, 1, <<>>)

\* key in items
HasPattern(items, key) == \E q \in 1..Len(items) : items[q].key = key

\* items[key], for a key the dict holds
PatternOf(items, key) ==
    items[CHOOSE q \in 1..Len(items) : items[q].key = key].pattern

\* current_aliases[table_name] = alias, on a dict kept as the sequence of its items
SetAlias(aliases, table_name, alias) ==
    IF \E q \in 1..Len(aliases) : aliases[q].table = table_name
    THEN [q \in 1..Len(aliases) |->
            IF aliases[q].table = table_name
            THEN [table |-> table_name, alias |-> alias]
            ELSE aliases[q]]
    ELSE Append(aliases, [table |-> table_name, alias |-> alias])

\* alias = match.group(2) or match.group(4)
MatchAlias(mt) == IF mt.group2 # <<>> THEN mt.group2 ELSE mt.group4

\* the body of the inner loop of step 1: the reserved-word guard and the binding
Observe(aliases, table_name, alias) ==
    IF alias # <<>> /\ UpperStr(alias) \notin ReservedWords
    THEN SetAlias(aliases, table_name, alias)
    ELSE aliases

\* the inner loop of step 1 over the matches of one table
RECURSIVE ObserveMatches(_, _, _, _)
ObserveMatches(matches, idx, table_name, aliases) ==
    IF idx > Len(matches) THEN aliases
    ELSE ObserveMatches(matches, idx + 1, table_name,
                        Observe(aliases, table_name, MatchAlias(matches[idx])))

\* step 1 of the loop body: alias detection on the original line
RECURSIVE ObserveTables(_, _, _, _)
ObserveTables(map, ti, line, aliases) ==
    IF ti > Len(map) THEN aliases
    ELSE ObserveTables(map, ti + 1, line,
            ObserveMatches(finditer(create_alias_pattern(map[ti].table), line),
                           1, map[ti].table, aliases))

\* modified_line, count = ...subn(...); if count > 0: line_was_modified = True.
\* st is the line being rewritten, [text, modified, ...]; res what subn returned
Applied(st, res) ==
    [st EXCEPT !.text = res.text, !.modified = @ \/ res.count > 0]

Substitute(st, pattern) == Applied(st, subn(pattern, st.text))

\* step 2: the loop over replace_patterns.items().  Each key is unpacked into
\* (table, col, _type) before _type is looked at: a key of two elements
\* raises ValueError.
RECURSIVE DirectLoop(_, _, _)
DirectLoop(items, idx, st) ==
    IF idx > Len(items) THEN st
    ELSE IF Len(items[idx].key) # 3 THEN [st EXCEPT !.raised = TRUE]
    ELSE IF items[idx].key[3] = "direct"
    THEN DirectLoop(items, idx + 1, Substitute(st, items[idx].pattern))
    ELSE DirectLoop(items, idx + 1, st)

\* step 3: for each bound alias, for each column of its table
RECURSIVE AliasColumns(_, _, _, _)
AliasColumns(columns, ci, alias, st) ==
    IF ci > Len(columns) THEN st
    ELSE AliasColumns(columns, ci + 1, alias,
            Substitute(st, create_alias_usage_pattern_for_replace(alias, columns[ci])))

RECURSIVE AliasLoop(_, _, _, _)
AliasLoop(map, aliases, ai, st) ==
    IF ai > Len(aliases) THEN st
    ELSE IF HasTable(map, aliases[ai].table)
    THEN AliasLoop(map, aliases, ai + 1,
                   AliasColumns(ColumnsOf(map, aliases[ai].table), 1,
                                aliases[ai].alias, st))
    ELSE AliasLoop(map, aliases, ai + 1, st)

\* the body of step 4 for one column: res what subn returned
ResultMapApplied(st, col, res) ==
    [st EXCEPT !.text = res.text,
               !.modified = @ \/ res.count > 0,
               !.processed = IF res.count > 0 THEN @ \cup {col} ELSE @]

ResultMapColumn(items, st, col) ==
    IF col \notin st.processed /\ HasPattern(items, <<col, "resultmap">>)
    THEN ResultMapApplied(st, col,
            subn(PatternOf(items, <<col, "resultmap">>), st.text))
    ELSE st

\* step 4: every column once per line, over all tables
RECURSIVE ResultMapLoop(_, _, _, _, _)
ResultMapLoop(map, items, ti, ci, st) ==
    IF ti > Len(map) THEN st
    ELSE IF ci > Len(map[ti].columns) THEN ResultMapLoop(map, items, ti + 1, 1, st)
    ELSE ResultMapLoop(map, items, ti, ci + 1,
                       ResultMapColumn(items, st, map[ti].columns[ci]))

(***************************************************************************)
(* main: the report keys and their order                                   *)
(***************************************************************************)
\* the printable ASCII characters in code-point order, from 32 (space) on;
\* the entry of code 96 is spelled out, a string cannot hold that character
Ascii ==
    << " ", "!", "\"", "#", "$", "%", "&", "'", "(", ")", "*", "+",
       ",", "-", ".", "/", "0", "1", "2", "3", "4", "5", "6", "7",
       "8", "9", ":", ";", "<", "=", ">", "?", "@", "A", "B", "C",
       "D", "E", "F", "G", "H", "I", "J", "K", "L", "M", "N", "O",
       "P", "Q", "R", "S", "T", "U", "V", "W", "X", "Y", "Z", "[",
       "\\", "]", "^", "_", "backquote", "a", "b", "c", "d", "e", "f", "g",
       "h", "i", "j", "k", "l", "m", "n", "o", "p", "q", "r", "s",
       "t", "u", "v", "w", "x", "y", "z", "{", "|", "}", "~" >>

\* ord(ch)
Ord(ch) == 31 + CHOOSE q \in 1..Len(Ascii) : Ascii[q] = ch

\* str(n) for n >= 0
RECURSIVE Str(_)
Str(n) == IF n < 10 THEN <<Digits[n + 1]>>
          ELSE Str(n \div 10) \o <<Digits[(n % 10) + 1]>>

\* int(str) raises ValueError unless str is a run of digits
IsInt(str) == str # <<>> /\ \A q \in 1..Len(str) : str[q] \in DigitChars

DigitValue(ch) == (CHOOSE q \in 1..Len(Digits) : Digits[q] = ch) - 1

RECURSIVE ParseInt(_)
ParseInt(str) ==
    IF Len(str) = 1 THEN DigitValue(str[1])
    ELSE 10 * ParseInt(SubSeq(str, 1, Len(str) - 1)) + DigitValue(str[Len(str)])

\* str.split(':'), as the sequence of the pieces
RECURSIVE SplitFrom(_, _)
SplitAt(str, pos, at) ==
    IF at = 0 THEN <<SubSeq(str, pos, Len(str))>>
    ELSE <<SubSeq(str, pos, at - 1)>> \o SplitFrom(str, at + 1)

SplitFrom(str, pos) ==
    SplitAt(str, pos, FirstOf({q \in pos..Len(str) : str[q] = ":"}))

Split(str) == SplitFrom(str, 1)

\* s1 < s2 as Python compares two str
StrLess(s1, s2) ==
    \/ /\ Len(s1) < Len(s2)
       /\ SubSeq(s2, 1, Len(s1)) = s1
    \/ \E q \in 1..Len(s1) :
          /\ q <= Len(s2)
          /\ SubSeq(s1, 1, q - 1) = SubSeq(s2, 1, q - 1)
          /\ Ord(s1[q]) < Ord(s2[q])

\* int(x.split(':')[1]) raises: there is no second piece, or it is no number
PiecesRaise(pieces) == Len(pieces) < 2 \/ ~IsInt(pieces[2])

KeyRaises(item) == PiecesRaise(Split(item))

\* (pieces[0], int(pieces[1]))
KeyOf(pieces) == <<pieces[1], ParseInt(pieces[2])>>

\* lambda x: (x.split(':')[0], int(x.split(':')[1]))
SortKey(item) == KeyOf(Split(item))

\* k1 < k2 as Python compares two (str, int) tuples
KeyLess(k1, k2) == StrLess(k1[1], k2[1]) \/ (k1[1] = k2[1] /\ k1[2] < k2[2])

\* an item of the least key
Least(items) ==
    CHOOSE it \in items : \A other \in items : ~KeyLess(SortKey(other), SortKey(it))

\* sorted(list(items), key=...): the least key first.  Items of equal key
\* keep the order of the list, which for a set is any order: CHOOSE picks one.
RECURSIVE Sorted(_)
SortedFrom(items, first) == <<first>> \o Sorted(items \ {first})

Sorted(items) == IF items = {} THEN <<>> ELSE SortedFrom(items, Least(items))

\* the configured scan directory
SCAN_DIRECTORY ==
    << "D", ":", "\\", "p", "r", "o", "j", "\\", "b", "2",
       "b", "m", "a", "n", "a", "g", "e", "\\", "s", "r",
       "c", "\\", "m", "a", "i", "n", "\\", "r", "e", "s",
       "o", "u", "r", "c", "e", "s" >>

\* os.path.join(root, filename), root not ending in a separator
OsPathJoin(root, filename) ==
    root \o <<IF root[1] = "/" THEN "/" ELSE "\\">> \o filename

\* f"{file_path}:{line_num}"
ReportKey(file_path, num) == file_path \o <<":">> \o Str(num)

(***************************************************************************)
(* The inputs: target specs, lines and files                               *)
(***************************************************************************)
\* tb.status
SpecTbStatus ==
    << "t", "b", ".", "s", "t", "a", "t", "u", "s" >>

\* oc.status
SpecOcStatus ==
    << "o", "c", ".", "s", "t", "a", "t", "u", "s" >>

\* tb.fee
SpecTbFee ==
    << "t", "b", ".", "f", "e", "e" >>

\* ced_todo_tb.status
SpecMarkedTbStatus ==
    << "c", "e", "d", "_", "t", "o", "d", "o", "_", "t", "b", ".",
       "s", "t", "a", "t", "u", "s" >>

\* the lists of 'table.column' strings a run is configured with
TargetSpecPool ==
    { <<>>,
      <<SpecTbStatus>>,
      <<SpecTbStatus, SpecOcStatus>>,
      <<SpecMarkedTbStatus, SpecTbFee>> }

\* SELECT status FROM tb WHERE tb.status > 0\n
LineDirect ==
    << "S", "E", "L", "E", "C", "T", " ", "s", "t", "a", "t", "u",
       "s", " ", "F", "R", "O", "M", " ", "t", "b", " ", "W", "H",
       "E", "R", "E", " ", "t", "b", ".", "s", "t", "a", "t", "u",
       "s", " ", ">", " ", "0", "\n" >>

\* FROM tb r\n
LineDecl ==
    << "F", "R", "O", "M", " ", "t", "b", " ", "r", "\n" >>

\* WHERE r.status = 1\n
LineUse ==
    << "W", "H", "E", "R", "E", " ", "r", ".", "s", "t", "a", "t",
       "u", "s", " ", "=", " ", "1", "\n" >>

\* SELECT r.status FROM tb r\n
LineUseDecl ==
    << "S", "E", "L", "E", "C", "T", " ", "r", ".", "s", "t", "a",
       "t", "u", "s", " ", "F", "R", "O", "M", " ", "t", "b", " ",
       "r", "\n" >>

\* JOIN tb AS s ON s.status = r.status\n
LineRedecl ==
    << "J", "O", "I", "N", " ", "t", "b", " ", "A", "S", " ", "s",
       " ", "O", "N", " ", "s", ".", "s", "t", "a", "t", "u", "s",
       " ", "=", " ", "r", ".", "s", "t", "a", "t", "u", "s", "\n" >>

\* FROM a x, tb t WHERE t.status = 1\n
LineComma ==
    << "F", "R", "O", "M", " ", "a", " ", "x", ",", " ", "t", "b",
       " ", "t", " ", "W", "H", "E", "R", "E", " ", "t", ".", "s",
       "t", "a", "t", "u", "s", " ", "=", " ", "1", "\n" >>

\* FROM tb r JOIN tb s ON s.status = 1\n
LineTwoDecl ==
    << "F", "R", "O", "M", " ", "t", "b", " ", "r", " ", "J", "O",
       "I", "N", " ", "t", "b", " ", "s", " ", "O", "N", " ", "s",
       ".", "s", "t", "a", "t", "u", "s", " ", "=", " ", "1", "\n" >>

\* FROM tb WHERE x = 1\n
LineReserved ==
    << "F", "R", "O", "M", " ", "t", "b", " ", "W", "H", "E", "R",
       "E", " ", "x", " ", "=", " ", "1", "\n" >>

\* FROM a, tb WHERE a.id = 1\n
LineCommaReserved ==
    << "F", "R", "O", "M", " ", "a", ",", " ", "t", "b", " ", "W",
       "H", "E", "R", "E", " ", "a", ".", "i", "d", " ", "=", " ",
       "1", "\n" >>

\* <result column="status" property="status"/>\n
LineResult ==
    << "<", "r", "e", "s", "u", "l", "t", " ", "c", "o", "l", "u",
       "m", "n", "=", "\"", "s", "t", "a", "t", "u", "s", "\"", " ",
       "p", "r", "o", "p", "e", "r", "t", "y", "=", "\"", "s", "t",
       "a", "t", "u", "s", "\"", "/", ">", "\n" >>

\* ced_todo_tb.ced_todo_status r.ced_todo_status\n
LineMarked ==
    << "c", "e", "d", "_", "t", "o", "d", "o", "_", "t", "b", ".",
       "c", "e", "d", "_", "t", "o", "d", "o", "_", "s", "t", "a",
       "t", "u", "s", " ", "r", ".", "c", "e", "d", "_", "t", "o",
       "d", "o", "_", "s", "t", "a", "t", "u", "s", "\n" >>

\* tb.status column="status"\n
LineBoth ==
    << "t", "b", ".", "s", "t", "a", "t", "u", "s", " ", "c", "o",
       "l", "u", "m", "n", "=", "\"", "s", "t", "a", "t", "u", "s",
       "\"", "\n" >>

LinePool ==
    { LineDirect,
      LineDecl,
      LineUse,
      LineUseDecl,
      LineRedecl,
      LineComma,
      LineTwoDecl,
      LineReserved,
      LineCommaReserved,
      LineResult,
      LineMarked }

\* the most lines the first file holds
MaxLines == 2

\* the files of at most n lines
FilePool(n) == UNION {[1..len -> LinePool] : len \in 0..n}

\* a.xml
FileNameA ==
    << "a", ".", "x", "m", "l" >>

\* b.xml
FileNameB ==
    << "b", ".", "x", "m", "l" >>

\* /srv/res
PosixDirectory ==
    << "/", "s", "r", "v", "/", "r", "e", "s" >>

\* b.xml
SecondFilePool ==
    { <<>>, <<LineResult>>, <<LineDirect>>, <<LineDecl>>, <<LineUse>>,
      <<LineBoth>> }

\* the XML files under the scan directory, in the order os.walk yields them
DiskPool ==
    { << [name |-> FileNameA, content |-> c1],
         [name |-> FileNameB, content |-> c2] >> :
        c1 \in FilePool(MaxLines), c2 \in SecondFilePool }

\* what is typed at the prompt of main
ConfirmPool == { <<"y", "e", "s">>, <<"Y", "E", "S">>, <<"n", "o">> }

(***************************************************************************)
(* The state                                                               *)
(***************************************************************************)
VARIABLES
    disk,                 \* the XML files: [name, content], content the lines
    entry,                \* "main": the script is run; "function": a caller
                          \* hands each file to process_and_modify_file
    confirm,              \* main: the answer typed at the prompt
    target_column_specs,  \* main: the list split from TARGET_COLUMNS_STR
    scan_directory,       \* the directory walked
    is_dir,               \* os.path.isdir(scan_directory)
    table_column_map,     \* the target map
    run,                  \* which execution this is
    run_start_disk,       \* history: the files as this execution found them
    pc,                   \* where the execution stands
    error,                \* the exception that ended it, "" for none
    file_idx,             \* the file of disk the walk is at
    file_count,
    modified_file_count,
    modified_report,      \* the set of "filepath:linenum" keys
    sorted_report,        \* the keys as printed
    lines,                \* process_and_modify_file: f.readlines()
    line_num,
    original_line,
    modified_line,
    line_was_modified,
    current_aliases,      \* the dict, as the sequence of its [table, alias] items
    new_lines,
    file_modified,
    io_failed,            \* history: <<"read" or "write", file>> for each
                          \* open, readlines or writelines that raised
    \* mcp-anki-maker
    audio_dir,            \* the names of the .mp3 files under AUDIO_DIR
    anki_media,           \* the names in Anki's media collection
    anki_media_cache,     \* AudioService._anki_media_cache
    anki_pc,              \* where the server stands
    words_to_process,     \* add_words_batch: data.words
    processed_count,
    results,              \* [success, failed], each the list of its entries
    calls,                \* history: the calls made for the words, in order
    returned,             \* create_audio_file: the value returned, "" so far
    raised,               \* create_audio_file: the exception raised, "" none
    audio_dir_start       \* history: audio_dir when the cleanup began

mainVars ==
    <<file_count, modified_file_count, modified_report, sorted_report>>

fileVars == <<lines, new_lines, file_modified, current_aliases>>

lineVars == <<line_num, original_line, modified_line, line_was_modified>>

configVars == <<entry, confirm, target_column_specs, scan_directory, is_dir>>

mediaVars == <<audio_dir, anki_media, anki_media_cache, audio_dir_start>>

batchVars == <<words_to_process, processed_count, results, calls>>

ankiVars == <<mediaVars, batchVars, anki_pc, returned, raised>>

envVars == <<configVars, table_column_map, run, run_start_disk, ankiVars>>

\* Python's None, for a value that is otherwise a one-element sequence
None == <<>>

\* the server of mcp-anki-maker is not running: AudioService.__init__
AnkiIdle ==
    /\ audio_dir = {}
    /\ anki_media = {}
    /\ anki_media_cache = None
    /\ anki_pc = "idle"
    /\ words_to_process = <<>>
    /\ processed_count = 0
    /\ results = [success |-> <<>>, failed |-> <<>>]
    /\ calls = <<>>
    /\ returned = <<>>
    /\ raised = ""
    /\ audio_dir_start = {}

vars ==
    <<disk, envVars, pc, error, file_idx, mainVars, fileVars, lineVars,
      io_failed>>

\* file_path = os.path.join(root, filename) of the file the walk is at
file_path == OsPathJoin(scan_directory, disk[file_idx].name)

\* the start of an execution: main before its prompt, or a caller that holds
\* a target map before its first call of process_and_modify_file
StartIn(files, directory, exists, via, typed, specs, map, number) ==
    /\ disk = files
    /\ is_dir = exists
    /\ entry = via
    /\ confirm = typed
    /\ target_column_specs = specs
    /\ scan_directory = directory
    /\ table_column_map = map
    /\ run = number
    /\ run_start_disk = files
    /\ pc = IF via = "main" THEN "start" ELSE "walk"
    /\ error = ""
    /\ file_idx = 0
    /\ file_count = 0
    /\ modified_file_count = 0
    /\ modified_report = {}
    /\ sorted_report = <<>>
    /\ lines = <<>>
    /\ line_num = 0
    /\ original_line = <<>>
    /\ modified_line = <<>>
    /\ line_was_modified = FALSE
    /\ current_aliases = <<>>
    /\ new_lines = <<>>
    /\ file_modified = FALSE
    /\ io_failed = {}

\* the same, the scan directory being there
Start(files, directory, via, typed, specs, map, number) ==
    /\ StartIn(files, directory, TRUE, via, typed, specs, map, number)
    /\ AnkiIdle

InitWith(disks, spec_lists, answers) ==
    \E files \in disks, specs \in spec_lists :
        \/ \E typed \in answers :
              Start(files, SCAN_DIRECTORY, "main", typed, specs, <<>>, 1)
        \/ Start(files, SCAN_DIRECTORY, "function", <<>>, <<>>,
                 parse_target_columns(specs), 1)

Init == InitWith(DiskPool, TargetSpecPool, ConfirmPool)

\* the execution is over: main has returned or died of an exception, or the
\* caller has handed over its last file
Ended ==
    \/ pc \in {"done", "crashed"}
    \/ entry = "function" /\ pc = "walk" /\ file_idx = Len(disk)

(***************************************************************************)
(* The actions                                                             *)
(***************************************************************************)
\* the head of the per-line loop for line number num of the file read
EnterLine(all_lines, num) ==
    IF num <= Len(all_lines)
    THEN /\ pc' = "observe"
         /\ line_num' = num
         /\ original_line' = all_lines[num]
         /\ modified_line' = all_lines[num]
         /\ line_was_modified' = FALSE
    ELSE /\ pc' = "write"
         /\ UNCHANGED lineVars

\* main without its prompt: whatever is typed, the run goes on
CheckConfigUnasked ==
    /\ pc = "start"
    /\ IF ~is_dir
       THEN pc' = "done" /\ UNCHANGED table_column_map
       ELSE IF target_column_specs = <<>>
       THEN pc' = "done" /\ UNCHANGED table_column_map
       ELSE /\ table_column_map' = parse_target_columns(target_column_specs)
            /\ pc' = IF parse_target_columns(target_column_specs) = <<>>
                     THEN "done" ELSE "walk"
    /\ UNCHANGED <<disk, configVars, run, run_start_disk, error, file_idx,
                   mainVars, fileVars, lineVars, io_failed, ankiVars>>

\* main up to its walk: the prompt, the scan directory, the target list and
\* the target map
CheckConfig ==
    /\ pc = "start"
    /\ IF LowerStr(confirm) # <<"y", "e", "s">>
       THEN pc' = "done" /\ UNCHANGED table_column_map
       ELSE IF ~is_dir
       THEN pc' = "done" /\ UNCHANGED table_column_map
       ELSE IF target_column_specs = <<>>
       THEN pc' = "done" /\ UNCHANGED table_column_map
       ELSE /\ table_column_map' = parse_target_columns(target_column_specs)
            /\ pc' = IF parse_target_columns(target_column_specs) = <<>>
                     THEN "done" ELSE "walk"
    /\ UNCHANGED <<disk, configVars, run, run_start_disk, error, file_idx,
                   mainVars, fileVars, lineVars, io_failed, ankiVars>>

\* open and readlines succeed: the locals of process_and_modify_file
ReadLines(idx) ==
    /\ lines' = disk[idx].content
    /\ new_lines' = <<>>
    /\ file_modified' = FALSE
    /\ current_aliases' = <<>>
    /\ EnterLine(disk[idx].content, 1)
    /\ UNCHANGED <<error, io_failed>>

\* open or readlines raises and nothing catches it
ReadRaisesUncaught(idx) ==
    /\ io_failed' = io_failed \cup {<<"read", idx>>}
    /\ pc' = "crashed"
    /\ error' = "OSError"
    /\ UNCHANGED <<fileVars, lineVars>>

\* open or readlines raises: the except clause logs and returns False, and
\* the walk goes on
ReadRaises(idx) ==
    /\ io_failed' = io_failed \cup {<<"read", idx>>}
    /\ pc' = "walk"
    /\ UNCHANGED <<error, fileVars, lineVars>>

\* the next .xml file is taken and process_and_modify_file reads it
OpenFile ==
    /\ pc = "walk"
    /\ file_idx < Len(disk)
    /\ file_idx' = file_idx + 1
    /\ file_count' = file_count + 1
    /\ \E readable \in BOOLEAN :
          IF readable THEN ReadLines(file_idx + 1) ELSE ReadRaises(file_idx + 1)
    /\ UNCHANGED <<disk, envVars, modified_file_count, modified_report,
                   sorted_report>>

\* step 1: alias detection, on the original line
ObserveAliases ==
    /\ pc = "observe"
    /\ current_aliases' =
          ObserveTables(table_column_map, 1, original_line, current_aliases)
    /\ pc' = "direct"
    /\ UNCHANGED <<disk, envVars, io_failed, error, file_idx, mainVars, lines,
                   new_lines, file_modified, lineVars>>

\* the line being rewritten, as the passes hand it on
Line == [text |-> modified_line, modified |-> line_was_modified]

SetLine(st) ==
    /\ modified_line' = st.text
    /\ line_was_modified' = st.modified

\* an exception raised in the loop leaves process_and_modify_file and main
LeaveDirect(st) ==
    /\ SetLine(st)
    /\ pc' = IF st.raised THEN "crashed" ELSE "alias"
    /\ error' = IF st.raised THEN "ValueError" ELSE error

\* step 2: direct usage
DirectPass ==
    /\ pc = "direct"
    /\ LeaveDirect(DirectLoop(replace_patterns(table_column_map), 1,
                              [text |-> modified_line,
                               modified |-> line_was_modified,
                               raised |-> FALSE]))
    /\ UNCHANGED <<disk, envVars, io_failed, file_idx, mainVars, fileVars, line_num,
                   original_line>>

\* step 3: alias usage
AliasPass ==
    /\ pc = "alias"
    /\ SetLine(AliasLoop(table_column_map, current_aliases, 1, Line))
    /\ pc' = "resultmap"
    /\ UNCHANGED <<disk, envVars, io_failed, error, file_idx, mainVars, fileVars, line_num,
                   original_line>>

\* step 4: resultMap column attributes
ResultMapPass ==
    /\ pc = "resultmap"
    /\ SetLine(ResultMapLoop(table_column_map,
                             replace_patterns(table_column_map), 1, 1,
                             [text |-> modified_line,
                              modified |-> line_was_modified,
                              processed |-> {}]))
    /\ pc' = "record"
    /\ UNCHANGED <<disk, envVars, io_failed, error, file_idx, mainVars, fileVars, line_num,
                   original_line>>

\* the end of the loop body: the report key, new_lines, and the next line
RecordLine ==
    /\ pc = "record"
    /\ modified_report' =
          IF line_was_modified
          THEN modified_report \cup {ReportKey(file_path, line_num)}
          ELSE modified_report
    /\ file_modified' = (file_modified \/ line_was_modified)
    /\ new_lines' = Append(new_lines, modified_line)
    /\ IF line_num < Len(lines)
       THEN /\ pc' = "observe"
            /\ line_num' = line_num + 1
            /\ original_line' = lines[line_num + 1]
            /\ modified_line' = lines[line_num + 1]
            /\ line_was_modified' = FALSE
       ELSE /\ pc' = "write"
            /\ UNCHANGED lineVars
    /\ UNCHANGED <<disk, envVars, io_failed, error, file_idx, file_count,
                   modified_file_count, sorted_report, lines, current_aliases>>

\* how far a write-back gets: open(file_path, 'w') raises and nothing is
\* touched (NotOpened), or the file is truncated and writelines puts out that
\* many lines, all of them if nothing raises
NotOpened == 0 - 1

WriteOutcomes == {NotOpened} \cup (0..Len(new_lines))

\* what the file holds after such a write-back
Written(written) ==
    IF written = NotOpened
    THEN disk[file_idx].content
    ELSE SubSeq(new_lines, 1, written)

\* the try block of the write-back and its except clause: True is returned,
\* and main counts the file, only if nothing raised
WriteLines(written) ==
    /\ disk' = [disk EXCEPT ![file_idx].content = Written(written)]
    /\ IF written = Len(new_lines)
       THEN /\ modified_file_count' = modified_file_count + 1
            /\ UNCHANGED io_failed
       ELSE /\ io_failed' = io_failed \cup {<<"write", file_idx>>}
            /\ UNCHANGED modified_file_count

\* a write-back that does not ask whether a line was modified
WriteBackAlways ==
    /\ pc = "write"
    /\ \E written \in WriteOutcomes : WriteLines(written)
    /\ pc' = "walk"
    /\ UNCHANGED <<envVars, error, file_idx, file_count, modified_report,
                   sorted_report, fileVars, lineVars>>

\* the write-back, and main's count of the files that returned True
WriteBack ==
    /\ pc = "write"
    /\ IF file_modified
       THEN \E written \in WriteOutcomes : WriteLines(written)
       ELSE UNCHANGED <<disk, modified_file_count, io_failed>>
    /\ pc' = "walk"
    /\ UNCHANGED <<envVars, error, file_idx, file_count, modified_report,
                   sorted_report, fileVars, lineVars>>

\* after the walk: the sorted report, or the sort key raises
PrintReport ==
    /\ entry = "main"
    /\ pc = "walk"
    /\ file_idx = Len(disk)
    /\ IF modified_report # {} /\ \E item \in modified_report : KeyRaises(item)
       THEN /\ pc' = "crashed"
            /\ error' = "ValueError"
            /\ UNCHANGED sorted_report
       ELSE /\ pc' = "done"
            /\ sorted_report' = Sorted(modified_report)
            /\ UNCHANGED error
    /\ UNCHANGED <<disk, envVars, io_failed, file_idx, file_count, modified_file_count,
                   modified_report, fileVars, lineVars>>

Next ==
    \/ CheckConfig
    \/ OpenFile
    \/ ObserveAliases
    \/ DirectPass
    \/ AliasPass
    \/ ResultMapPass
    \/ RecordLine
    \/ WriteBack
    \/ PrintReport

Spec == Init /\ [][Next]_vars

(***************************************************************************)
(* The script run again over the files the run before left                 *)
(***************************************************************************)
\* the most executions of the script in a row
MaxRuns == 2

\* the files and the target lists of the repeated executions
TwiceLinePool == {LineDirect, LineUseDecl, LineMarked}

TwiceDiskPool ==
    { << [name |-> FileNameA, content |-> c1],
         [name |-> FileNameB, content |-> c2] >> :
        c1 \in UNION {[1..len -> TwiceLinePool] : len \in 0..MaxLines},
        c2 \in {<<>>, <<LineResult>>} }

InitTwice ==
    InitWith(TwiceDiskPool, {<<>>, <<SpecTbStatus>>}, {<<"y", "e", "s">>})

\* main is started once more, with the same configuration, on the files as
\* they are now
RunAgain ==
    /\ Ended
    /\ run < MaxRuns
    /\ run' = run + 1
    /\ run_start_disk' = disk
    /\ pc' = IF entry = "main" THEN "start" ELSE "walk"
    /\ table_column_map' = IF entry = "main" THEN <<>> ELSE table_column_map
    /\ error' = ""
    /\ file_idx' = 0
    /\ file_count' = 0
    /\ modified_file_count' = 0
    /\ modified_report' = {}
    /\ sorted_report' = <<>>
    /\ lines' = <<>>
    /\ line_num' = 0
    /\ original_line' = <<>>
    /\ modified_line' = <<>>
    /\ line_was_modified' = FALSE
    /\ current_aliases' = <<>>
    /\ new_lines' = <<>>
    /\ file_modified' = FALSE
    /\ io_failed' = {}
    /\ UNCHANGED <<disk, configVars, ankiVars>>

NextTwice == Next \/ RunAgain

SpecTwice == InitTwice /\ [][NextTwice]_vars

(***************************************************************************)
(* The report alone: main after the walk, over the keys a walk can collect *)
(***************************************************************************)
\* the most keys of a report
MaxKeys == 3

\* line numbers of modified lines
ReportLineNums == {1, 2, 9, 10}

\* the keys process_and_modify_file can add for the files under directory
KeyPool(directory) ==
    { ReportKey(OsPathJoin(directory, name), num) :
        name \in {FileNameA, FileNameB}, num \in ReportLineNums }

\* main when the walk over two files is over, keys the keys collected
AfterWalk(directory, keys) ==
    /\ disk = << [name |-> FileNameA, content |-> <<>>],
                 [name |-> FileNameB, content |-> <<>>] >>
    /\ entry = "main"
    /\ confirm = <<"y", "e", "s">>
    /\ target_column_specs = <<SpecTbStatus>>
    /\ scan_directory = directory
    /\ table_column_map = parse_target_columns(<<SpecTbStatus>>)
    /\ run = 1
    /\ run_start_disk = disk
    /\ pc = "walk"
    /\ error = ""
    /\ file_idx = 2
    /\ file_count = 2
    /\ modified_file_count = IF keys = {} THEN 0 ELSE 1
    /\ modified_report = keys
    /\ sorted_report = <<>>
    /\ lines = <<>>
    /\ line_num = 0
    /\ original_line = <<>>
    /\ modified_line = <<>>
    /\ line_was_modified = FALSE
    /\ current_aliases = <<>>
    /\ new_lines = <<>>
    /\ file_modified = FALSE
    /\ io_failed = {}
    /\ is_dir = TRUE
    /\ AnkiIdle

InitReport ==
    \E directory \in {SCAN_DIRECTORY, PosixDirectory} :
        \E keys \in SUBSET KeyPool(directory) :
            /\ Cardinality(keys) <= MaxKeys
            /\ AfterWalk(directory, keys)

NextReport == PrintReport

SpecReport == InitReport /\ [][NextReport]_vars

(***************************************************************************)
(* What the rewrite is to do: the names and the lines of the examples      *)
(***************************************************************************)
\* tb
TableTb ==
    << "t", "b" >>

\* status
ColumnStatus ==
    << "s", "t", "a", "t", "u", "s" >>

\* SELECT status FROM tb WHERE ced_todo_tb.ced_todo_status > 0\n
LineDirectRewritten ==
    << "S", "E", "L", "E", "C", "T", " ", "s", "t", "a", "t", "u",
       "s", " ", "F", "R", "O", "M", " ", "t", "b", " ", "W", "H",
       "E", "R", "E", " ", "c", "e", "d", "_", "t", "o", "d", "o",
       "_", "t", "b", ".", "c", "e", "d", "_", "t", "o", "d", "o",
       "_", "s", "t", "a", "t", "u", "s", " ", ">", " ", "0", "\n" >>

\* WHERE r.ced_todo_status = 1\n
LineUseRewritten ==
    << "W", "H", "E", "R", "E", " ", "r", ".", "c", "e", "d", "_",
       "t", "o", "d", "o", "_", "s", "t", "a", "t", "u", "s", " ",
       "=", " ", "1", "\n" >>

\* SELECT r.ced_todo_status FROM tb r\n
LineUseDeclRewritten ==
    << "S", "E", "L", "E", "C", "T", " ", "r", ".", "c", "e", "d",
       "_", "t", "o", "d", "o", "_", "s", "t", "a", "t", "u", "s",
       " ", "F", "R", "O", "M", " ", "t", "b", " ", "r", "\n" >>

\* JOIN tb AS s ON s.ced_todo_status = r.status\n
LineRedeclRewritten ==
    << "J", "O", "I", "N", " ", "t", "b", " ", "A", "S", " ", "s",
       " ", "O", "N", " ", "s", ".", "c", "e", "d", "_", "t", "o",
       "d", "o", "_", "s", "t", "a", "t", "u", "s", " ", "=", " ",
       "r", ".", "s", "t", "a", "t", "u", "s", "\n" >>

\* FROM a x, tb t WHERE t.ced_todo_status = 1\n
LineCommaRewritten ==
    << "F", "R", "O", "M", " ", "a", " ", "x", ",", " ", "t", "b",
       " ", "t", " ", "W", "H", "E", "R", "E", " ", "t", ".", "c",
       "e", "d", "_", "t", "o", "d", "o", "_", "s", "t", "a", "t",
       "u", "s", " ", "=", " ", "1", "\n" >>

\* <result column="ced_todo_status" property="status"/>\n
LineResultRewritten ==
    << "<", "r", "e", "s", "u", "l", "t", " ", "c", "o", "l", "u",
       "m", "n", "=", "\"", "c", "e", "d", "_", "t", "o", "d", "o",
       "_", "s", "t", "a", "t", "u", "s", "\"", " ", "p", "r", "o",
       "p", "e", "r", "t", "y", "=", "\"", "s", "t", "a", "t", "u",
       "s", "\"", "/", ">", "\n" >>

\* the target map holds the pair (table, column)
Targets(table, column) ==
    /\ HasTable(table_column_map, table)
    /\ \E q \in 1..Len(ColumnsOf(table_column_map, table)) :
          ColumnsOf(table_column_map, table)[q] = column

\* the table has a current alias
AliasBound(table) ==
    \E q \in 1..Len(current_aliases) : current_aliases[q].table = table

\* the current alias of a table that has one
AliasOf(table) ==
    current_aliases[CHOOSE q \in 1..Len(current_aliases) :
                        current_aliases[q].table = table].alias

\* step 1 has just run over the given line
Observed(line) == pc = "direct" /\ original_line = line

\* two marker prefixes in a row stand somewhere in str
DoublePrefix(str) ==
    \E q \in 1..(Len(str) - 2 * Len(PREFIX) + 1) :
        SubSeq(str, q, q + 2 * Len(PREFIX) - 1) = PREFIX \o PREFIX

\* with tb.status targeted and every file readable and writable, an execution
\* ends normally and leaves every line that read before as after
RewritesLine(before, after) ==
    (Ended /\ io_failed = {} /\ Targets(TableTb, ColumnStatus)) =>
        /\ error = ""
        /\ \A f \in 1..Len(disk) :
              \A q \in 1..Len(run_start_disk[f].content) :
                  run_start_disk[f].content[q] = before
                      => disk[f].content[q] = after

\* with tb.status targeted and every file readable and writable, an execution
\* ends normally and leaves a first file that read before as after
RewritesFile(before, after) ==
    (Ended /\ io_failed = {} /\ Targets(TableTb, ColumnStatus)
           /\ run_start_disk[1].content = before) =>
        /\ error = ""
        /\ disk[1].content = after

(***************************************************************************)
(* The write-back alone: process_and_modify_file after its per-line loop,  *)
(* over a first file whose lines the passes for tb.status were to rewrite  *)
(***************************************************************************)
\* steps 2 and 4 on a line for one target pair, no alias being bound: the
\* direct substitution, then the result-mapping substitution on its result
PassesOf(table, column, line) ==
    subn(create_resultmap_column_pattern_for_replace(column),
         subn(create_direct_usage_pattern_for_replace(table, column),
              line).text).text

\* new_lines for the lines read
NewLinesOf(table, column, read) ==
    [q \in 1..Len(read) |-> PassesOf(table, column, read[q])]

\* the keys the loop has added for the lines read from file f
KeysOf(directory, name, read, made) ==
    { ReportKey(OsPathJoin(directory, name), q) :
        q \in {k \in 1..Len(read) : made[k] # read[k]} }

WriteLinePool == {LineDirect, LineResult, LineBoth, LineReserved}

\* the first file has been read and its loop has ended, the second is empty
AtWriteBack(via, read, made) ==
    /\ disk = << [name |-> FileNameA, content |-> read],
                 [name |-> FileNameB, content |-> <<>>] >>
    /\ entry = via
    /\ confirm = IF via = "main" THEN <<"y", "e", "s">> ELSE <<>>
    /\ target_column_specs = IF via = "main" THEN <<SpecTbStatus>> ELSE <<>>
    /\ scan_directory = PosixDirectory
    /\ table_column_map = parse_target_columns(<<SpecTbStatus>>)
    /\ run = 1
    /\ run_start_disk = disk
    /\ pc = "write"
    /\ error = ""
    /\ file_idx = 1
    /\ file_count = 1
    /\ modified_file_count = 0
    /\ modified_report = KeysOf(PosixDirectory, FileNameA, read, made)
    /\ sorted_report = <<>>
    /\ lines = read
    /\ line_num = Len(read)
    /\ original_line = read[Len(read)]
    /\ modified_line = made[Len(read)]
    /\ line_was_modified = (made[Len(read)] # read[Len(read)])
    /\ current_aliases = <<>>
    /\ new_lines = made
    /\ file_modified = (made # read)
    /\ io_failed = {}
    /\ is_dir = TRUE
    /\ AnkiIdle

InitWrite ==
    \E via \in {"main", "function"} :
        \E read \in FilePool(MaxLines) :
            /\ read # <<>>
            /\ \A q \in 1..Len(read) : read[q] \in WriteLinePool
            /\ AtWriteBack(via, read,
                           NewLinesOf(TableTb, ColumnStatus, read))

NextWrite == WriteBack \/ OpenFile \/ PrintReport

SpecWrite == InitWrite /\ [][NextWrite]_vars

(***************************************************************************)
(* The walk in either order: os.walk yields a.xml before b.xml or after it *)
(***************************************************************************)
OrderLinePool == {LineDirect, LineResult, LineBoth}

OrderFilePool == UNION {[1..len -> OrderLinePool] : len \in 0..MaxLines}

\* the same two files, as os.walk may list them
OrderDiskPool ==
    UNION { { << [name |-> FileNameA, content |-> c1],
                 [name |-> FileNameB, content |-> c2] >>,
              << [name |-> FileNameB, content |-> c2],
                 [name |-> FileNameA, content |-> c1] >> } :
            c1 \in OrderFilePool, c2 \in OrderFilePool }

InitOrder ==
    InitWith(OrderDiskPool, {<<>>, <<SpecTbStatus>>}, {<<"y", "e", "s">>})

SpecOrder == InitOrder /\ [][Next]_vars

(***************************************************************************)
(* The usage patterns alone: the direct pattern of (tb, status) and the    *)
(* alias pattern of (r, status), each substituted in a text                *)
(***************************************************************************)
\* the most usages of a text
MaxOccurrences == 2

\* what stands before a qualifier, the qualifiers, what stands after a column
BeforePool == { <<>>, <<"x">>, <<"_">> }

QualifierPool == { <<"t", "b">>, <<"T", "B">>, <<"r">> }

AfterPool == { <<>>, <<"_", "c", "o", "d", "e">>, <<"2">>, <<",">> }

\* xtb.status, r.status2, (TB.status, ...
UsagePool ==
    { before \o qualifier \o <<".">> \o ColumnStatus \o after :
        before \in BeforePool, qualifier \in QualifierPool,
        after \in AfterPool }

\* the texts of n usages, one right after the other
RECURSIVE TextPool(_)
TextPool(n) ==
    IF n = 0
    THEN {<<>>}
    ELSE {text \o usage : text \in TextPool(n - 1), usage \in UsagePool}

\* before pattern.subn(repl, modified_line): the map targets tb.status and r
\* is the current alias of tb
AtPattern(text) ==
    /\ disk = <<>>
    /\ entry = "function"
    /\ confirm = <<>>
    /\ target_column_specs = <<>>
    /\ scan_directory = PosixDirectory
    /\ table_column_map = parse_target_columns(<<SpecTbStatus>>)
    /\ run = 1
    /\ run_start_disk = <<>>
    /\ pc = "pattern"
    /\ error = ""
    /\ file_idx = 0
    /\ file_count = 0
    /\ modified_file_count = 0
    /\ modified_report = {}
    /\ sorted_report = <<>>
    /\ lines = <<text>>
    /\ line_num = 1
    /\ original_line = text
    /\ modified_line = text
    /\ line_was_modified = FALSE
    /\ current_aliases = <<[table |-> TableTb, alias |-> <<"r">>]>>
    /\ new_lines = <<>>
    /\ file_modified = FALSE
    /\ io_failed = {}
    /\ is_dir = TRUE
    /\ AnkiIdle

InitPattern ==
    \E n \in 1..MaxOccurrences : \E text \in TextPool(n) : AtPattern(text)

\* modified_line, count = pattern.subn(repl, modified_line), and the test of
\* count
ApplyPattern(pattern, done) ==
    /\ modified_line' = subn(pattern, modified_line).text
    /\ line_was_modified' = (subn(pattern, modified_line).count > 0)
    /\ pc' = done
    /\ UNCHANGED <<disk, envVars, io_failed, error, file_idx, mainVars,
                   fileVars, line_num, original_line>>

\* step 2 for the one target pair
ApplyDirectUsage ==
    /\ pc = "pattern"
    /\ ApplyPattern(create_direct_usage_pattern_for_replace(
                        table_column_map[1].table,
                        table_column_map[1].columns[1]),
                    "direct_applied")

\* step 3 for the one alias and the one column of its table
ApplyAliasUsage ==
    /\ pc = "pattern"
    /\ ApplyPattern(create_alias_usage_pattern_for_replace(
                        current_aliases[1].alias,
                        table_column_map[1].columns[1]),
                    "alias_applied")

NextPattern == ApplyDirectUsage \/ ApplyAliasUsage

SpecPattern == InitPattern /\ [][NextPattern]_vars

(***************************************************************************)
(* The target list alone: main over a scan directory without XML files,    *)
(* for lists whose names hold the marker prefix                            *)
(***************************************************************************)
\* the most specs of a target list
MaxSpecs == 2

\* tb, ced_todo_, ced_todo_tb, ced_todo_ced_todo_tb, ced_ced_todo_todo_tb
TableNamePool ==
    { TableTb,
      PREFIX,
      PREFIX \o TableTb,
      PREFIX \o PREFIX \o TableTb,
      <<"c", "e", "d", "_">> \o PREFIX \o <<"t", "o", "d", "o", "_">>
          \o TableTb }

\* status, ced_todo_, ced_todo_status
ColumnNamePool == { ColumnStatus, PREFIX, PREFIX \o ColumnStatus }

ParseSpecPool ==
    { table \o <<".">> \o column :
        table \in TableNamePool, column \in ColumnNamePool }

ParseListPool == UNION {[1..len -> ParseSpecPool] : len \in 0..MaxSpecs}

InitParse ==
    InitWith({<<>>}, ParseListPool, {<<"y", "e", "s">>, <<"n", "o">>})

NextParse == CheckConfig \/ PrintReport

SpecParse == InitParse /\ [][NextParse]_vars

(***************************************************************************)
(* main before its walk: every answer, a scan directory that is or is not  *)
(* there, a target list that is empty, parses to nothing or names a column *)
(***************************************************************************)
\* yes, YES, Yes, no, y, the empty answer and " yes"
GateAnswerPool ==
    { <<"y", "e", "s">>, <<"Y", "E", "S">>, <<"Y", "e", "s">>, <<"n", "o">>,
      <<"y">>, <<>>, <<" ", "y", "e", "s">> }

\* no spec, a spec without a '.', and tb.status
GateSpecPool == { <<>>, <<ColumnStatus>>, <<SpecTbStatus>> }

\* under a directory that is not there, there is no file
InitGate ==
    \/ InitWith(OrderDiskPool, GateSpecPool, GateAnswerPool)
    \/ \E typed \in GateAnswerPool, specs \in GateSpecPool :
          /\ StartIn(<<>>, SCAN_DIRECTORY, FALSE, "main", typed, specs, <<>>, 1)
          /\ AnkiIdle

SpecGate == InitGate /\ [][Next]_vars

(***************************************************************************)
(* mcp-anki-maker: the names of the audio files and the validation of a    *)
(* word (utils.py)                                                         *)
(***************************************************************************)
IsAlnum(ch) == ch \in LowerLetters \cup UpperLetters \cup DigitChars

\* TAG_PATTERN.match(tag): ^[a-zA-Z0-9_-]+$, where $ is the end of the tag or
\* the place before a newline that ends it
TagPatternMatches(tag) ==
    \E last \in 1..Len(tag) :
        /\ \A q \in 1..last : IsAlnum(tag[q]) \/ tag[q] \in {"_", "-"}
        /\ \/ last = Len(tag)
           \/ last = Len(tag) - 1 /\ tag[Len(tag)] = "\n"

\* validate_word_data: is_valid
validate_word_data(word_data) ==
    \A q \in 1..Len(word_data.tags) : TagPatternMatches(word_data.tags[q])

\* re.sub(r'_+', '_', s), from position q on
RECURSIVE Squeeze(_, _)
Squeeze(str, q) ==
    IF q > Len(str) THEN <<>>
    ELSE IF str[q] = "_" /\ q > 1 /\ str[q - 1] = "_" THEN Squeeze(str, q + 1)
    ELSE <<str[q]>> \o Squeeze(str, q + 1)

\* s.strip('_')
StripUnderscores(str) ==
    IF {q \in 1..Len(str) : str[q] # "_"} = {} THEN <<>>
    ELSE SubSeq(str, FirstOf({q \in 1..Len(str) : str[q] # "_"}),
                     LastOf({q \in 1..Len(str) : str[q] # "_"}))

\* s.lower() or "invalid_word"
LowerOrInvalid(str) ==
    IF str = <<>>
    THEN <<"i", "n", "v", "a", "l", "i", "d", "_", "w", "o", "r", "d">>
    ELSE LowerStr(str)

format_word_for_filename(word) ==
    LowerOrInvalid(StripUnderscores(Squeeze(
        [q \in 1..Len(word) |-> IF IsAlnum(word[q]) THEN word[q] ELSE "_"],
        1)))

\* f"{formatted_word}-{audio_type}-{stable_hash}.mp3", as the triple of its
\* parts; the hash of a text stands for the text (no two texts of the pools
\* share their MD5)
AudioFilename(text, word, audio_type) ==
    <<format_word_for_filename(word), audio_type, text>>

(***************************************************************************)
(* mcp-anki-maker: AudioService (audio_service.py).  Each call of Anki, of *)
(* the speech API and of the file system either answers or raises: the     *)
(* outcome is an argument of the operator that models the call.            *)
(***************************************************************************)
\* _get_anki_media_files(force_refresh): the set returned, cache the cache
\* and media Anki's collection at the call, fetched whether
\* get_media_files_names answers
MediaFilesReturned(cache, media, force_refresh, fetched) ==
    IF cache = None \/ force_refresh
    THEN IF fetched THEN media ELSE {}
    ELSE cache[1]

\* _get_anki_media_files(force_refresh): the cache it leaves
MediaCacheLeft(cache, media, force_refresh, fetched) ==
    IF (cache = None \/ force_refresh) /\ fetched THEN <<media>> ELSE cache

\* create_audio_file, the file being under AUDIO_DIR: it is uploaded when the
\* cached list does not hold it.  listed: the fetch of line 56 answers;
\* uploaded: the file is read and store_media_file answers; fetched: the
\* refresh after the upload answers
CreateFromLocal(name, listed, uploaded, fetched) ==
    /\ IF name \in MediaFilesReturned(anki_media_cache, anki_media, FALSE,
                                      listed)
       THEN /\ anki_media' = anki_media
            /\ anki_media_cache' =
                   MediaCacheLeft(anki_media_cache, anki_media, FALSE, listed)
       ELSE IF uploaded
       THEN /\ anki_media' = anki_media \cup {name}
            /\ anki_media_cache' =
                   MediaCacheLeft(
                       MediaCacheLeft(anki_media_cache, anki_media, FALSE,
                                      listed),
                       anki_media \cup {name}, TRUE, fetched)
       ELSE /\ anki_media' = anki_media
            /\ anki_media_cache' =
                   MediaCacheLeft(anki_media_cache, anki_media, FALSE, listed)
    /\ returned' = name
    /\ raised' = ""
    /\ UNCHANGED audio_dir

\* create_audio_file, the file not being under AUDIO_DIR.  spoken: the speech
\* API answers; saved: the file is written; uploaded, fetched: as above
CreateFromSpeech(name, spoken, saved, uploaded, fetched) ==
    IF ~spoken
    THEN /\ raised' = "RuntimeError"
         /\ returned' = <<>>
         /\ UNCHANGED <<audio_dir, anki_media, anki_media_cache>>
    ELSE /\ audio_dir' = IF saved THEN audio_dir \cup {name} ELSE audio_dir
         /\ IF uploaded
            THEN /\ anki_media' = anki_media \cup {name}
                 /\ anki_media_cache' =
                        MediaCacheLeft(anki_media_cache,
                                       anki_media \cup {name}, TRUE, fetched)
                 /\ returned' = name
                 /\ raised' = ""
            ELSE /\ raised' = "RuntimeError"
                 /\ returned' = <<>>
                 /\ UNCHANGED <<anki_media, anki_media_cache>>

\* what the calls made by one create_audio_file do
AudioOutcomes ==
    [listed : BOOLEAN, spoken : BOOLEAN, saved : BOOLEAN, uploaded : BOOLEAN,
     fetched : BOOLEAN]

create_audio_file(text, word, audio_type, outcome) ==
    IF text = <<>>
    THEN /\ returned' = <<>>
         /\ raised' = ""
         /\ UNCHANGED <<audio_dir, anki_media, anki_media_cache>>
    ELSE IF AudioFilename(text, word, audio_type) \in audio_dir
    THEN CreateFromLocal(AudioFilename(text, word, audio_type),
                         outcome.listed, outcome.uploaded, outcome.fetched)
    ELSE CreateFromSpeech(AudioFilename(text, word, audio_type),
                          outcome.spoken, outcome.saved, outcome.uploaded,
                          outcome.fetched)

\* cleanup_unused_audio_files: unused_files = local_files - anki_files are
\* unlinked, but for those whose unlink raises (undeleted)
cleanup_unused_audio_files(fetched, undeleted) ==
    /\ anki_media_cache' =
           MediaCacheLeft(anki_media_cache, anki_media, TRUE, fetched)
    /\ audio_dir' =
           (audio_dir \cap MediaFilesReturned(anki_media_cache, anki_media,
                                              TRUE, fetched))
               \cup undeleted
    /\ UNCHANGED anki_media

(***************************************************************************)
(* mcp-anki-maker: the server (main.py): one add-words-batch request, and  *)
(* the cleanup at exit                                                     *)
(***************************************************************************)
\* the most words of a request
MaxWords == 2

\* cat
WordCat == <<"c", "a", "t">>

\* Hot Dog
WordHotDog == <<"H", "o", "t", " ", "D", "o", "g">>

\* pet
TextPet == <<"p", "e", "t">>

\* bun
TextBun == <<"b", "u", "n">>

\* eat
TextEat == <<"e", "a", "t">>

\* n-1, and n-1 with a newline after it
TagPlain == <<"n", "-", "1">>

TagNewline == <<"n", "-", "1", "\n">>

\* a b
TagSpaced == <<"a", " ", "b">>

\* WordInput: example None is the empty text, tags None the empty list
WordDataPool ==
    << [word |-> WordCat, definition |-> <<>>, example |-> <<>>,
        tags |-> <<>>],
       [word |-> WordCat, definition |-> TextPet, example |-> <<>>,
        tags |-> <<TagPlain, TagSpaced>>],
       [word |-> WordHotDog, definition |-> TextBun, example |-> TextEat,
        tags |-> <<TagPlain, TagNewline>>] >>

\* the ways to pick len word data of the pool, each at most once
Picks(len) ==
    { order \in [1..len -> 1..Len(WordDataPool)] :
        \A q1, q2 \in 1..len : order[q1] = order[q2] => q1 = q2 }

\* data.words: at most MaxWords word data of the pool, in any order
BatchPool ==
    UNION { { [q \in 1..len |-> WordDataPool[order[q]]] :
                order \in Picks(len) } :
            len \in 0..MaxWords }

\* the audio files an earlier session may have left under AUDIO_DIR or in
\* Anki
StoredPool ==
    { AudioFilename(WordCat, WordCat, "word"),
      AudioFilename(TextPet, WordCat, "definition"),
      AudioFilename(WordHotDog, WordHotDog, "word") }

\* what add_note does: the note is added, or ValueError (a duplicate, an
\* answer that is no id), ConnectionError or RuntimeError is raised
AddNoteOutcomes == {"added", "ValueError", "ConnectionError", "RuntimeError"}

xmlVars ==
    <<disk, configVars, table_column_map, run, run_start_disk, pc, error,
      file_idx, mainVars, fileVars, lineVars, io_failed>>

\* the module is imported: AudioService() with no cached list, local files
\* under AUDIO_DIR, media media in Anki
ServerStarted(local, media) ==
    /\ StartIn(<<>>, SCAN_DIRECTORY, TRUE, "function", <<>>, <<>>, <<>>, 1)
    /\ audio_dir = local
    /\ anki_media = media
    /\ anki_media_cache = None
    /\ anki_pc = "serving"
    /\ words_to_process = <<>>
    /\ processed_count = 0
    /\ results = [success |-> <<>>, failed |-> <<>>]
    /\ calls = <<>>
    /\ returned = <<>>
    /\ raised = ""
    /\ audio_dir_start = local

\* a request arrives with the audio of cat, if any file at all, left by an
\* earlier session
InitAnki ==
    \E local \in SUBSET {AudioFilename(WordCat, WordCat, "word")},
       media \in SUBSET {AudioFilename(WordCat, WordCat, "word")} :
        ServerStarted(local, media)

\* the server is about to exit
InitCleanup ==
    \E local \in SUBSET StoredPool, media \in SUBSET StoredPool :
        ServerStarted(local, media)

\* word_data of the iteration
word_data == words_to_process[processed_count]

\* the head of the loop over words: the word of number num, or the response
EnterWord(words, num) ==
    IF num <= Len(words)
    THEN /\ processed_count' = num
         /\ anki_pc' = "validate"
    ELSE /\ anki_pc' = "respond"
         /\ UNCHANGED processed_count

\* the failure of a word ends the loop, as the excepts around the loop do
RecordFailedAborts(error_message) ==
    /\ results' = [results EXCEPT !.failed =
                      Append(@, [word |-> word_data.word,
                                 error |-> error_message])]
    /\ anki_pc' = "respond"
    /\ UNCHANGED processed_count

\* except ValueError / except Exception of the loop body
RecordFailed(error_message) ==
    /\ results' = [results EXCEPT !.failed =
                      Append(@, [word |-> word_data.word,
                                 error |-> error_message])]
    /\ EnterWord(words_to_process, processed_count + 1)

\* the call made for the word of the iteration, and whether it returned
Called(name, ok) ==
    calls' = Append(calls, [word |-> processed_count, call |-> name,
                            ok |-> ok])

\* add_words_batch up to its loop
ReceiveBatch ==
    /\ anki_pc = "serving"
    /\ \E words \in BatchPool, fetched \in BOOLEAN :
          /\ words_to_process' = words
          /\ anki_media_cache' =
                 MediaCacheLeft(anki_media_cache, anki_media, TRUE, fetched)
          /\ IF words = <<>>
             THEN anki_pc' = "respond" /\ processed_count' = 0
             ELSE anki_pc' = "validate" /\ processed_count' = 1
    /\ results' = [success |-> <<>>, failed |-> <<>>]
    /\ calls' = <<>>
    /\ UNCHANGED <<audio_dir, anki_media, audio_dir_start, returned, raised,
                   xmlVars>>

\* 1. Validate Input Data
Validate ==
    /\ anki_pc = "validate"
    /\ IF validate_word_data(word_data)
       THEN /\ anki_pc' = "audio_word"
            /\ UNCHANGED <<processed_count, results>>
       ELSE RecordFailed("invalid tag")
    /\ Called("validate_word_data", validate_word_data(word_data))
    /\ UNCHANGED <<mediaVars, words_to_process, returned, raised, xmlVars>>

\* after a call of create_audio_file, were its exception only logged
AfterAudioLogged(name, next) ==
    /\ anki_pc' = next
    /\ Called(name, raised' = "")
    /\ UNCHANGED <<processed_count, results, words_to_process,
                   audio_dir_start, xmlVars>>

\* after a call of create_audio_file: the next step, or the except of 220
AfterAudio(name, next) ==
    /\ IF raised' = ""
       THEN /\ anki_pc' = next
            /\ UNCHANGED <<processed_count, results>>
       ELSE RecordFailed("Audio generation failed.")
    /\ Called(name, raised' = "")
    /\ UNCHANGED <<words_to_process, audio_dir_start, xmlVars>>

\* 2. Generate Audio Files: Word Audio
AudioWord ==
    /\ anki_pc = "audio_word"
    /\ \E outcome \in AudioOutcomes :
          create_audio_file(word_data.word, word_data.word, "word", outcome)
    /\ AfterAudio("create_audio_file word", "audio_definition")

\* Definition Audio
AudioDefinition ==
    /\ anki_pc = "audio_definition"
    /\ \E outcome \in AudioOutcomes :
          create_audio_file(word_data.definition, word_data.word,
                            "definition", outcome)
    /\ AfterAudio("create_audio_file definition",
                  IF word_data.example # <<>> THEN "audio_example"
                  ELSE "add_note")

\* Example Audio (if applicable)
AudioExample ==
    /\ anki_pc = "audio_example"
    /\ \E outcome \in AudioOutcomes :
          create_audio_file(word_data.example, word_data.word, "example",
                            outcome)
    /\ AfterAudio("create_audio_file example", "add_note")

\* 4. Add Note to Anki, 5. Record Success, or the excepts; the note id is
\* the number of the word
AddNote ==
    /\ anki_pc = "add_note"
    /\ \E outcome \in AddNoteOutcomes :
          /\ IF outcome = "added"
             THEN /\ results' = [results EXCEPT !.success =
                                    Append(@, [word |-> word_data.word,
                                               note_id |-> processed_count])]
                  /\ EnterWord(words_to_process, processed_count + 1)
             ELSE RecordFailed(outcome)
          /\ Called("add_note", outcome = "added")
    /\ UNCHANGED <<mediaVars, words_to_process, returned, raised, xmlVars>>

\* Format Response, the backup, return
Respond ==
    /\ anki_pc = "respond"
    /\ anki_pc' = "responded"
    /\ UNCHANGED <<mediaVars, batchVars, returned, raised, xmlVars>>

\* perform_cleanup, registered with atexit
perform_cleanup ==
    /\ anki_pc \in {"serving", "responded"}
    /\ audio_dir_start' = audio_dir
    /\ \E fetched \in BOOLEAN :
          \E undeleted \in
                SUBSET (audio_dir \ MediaFilesReturned(
                            anki_media_cache, anki_media, TRUE, fetched)) :
              cleanup_unused_audio_files(fetched, undeleted)
    /\ anki_pc' = "exited"
    /\ UNCHANGED <<batchVars, returned, raised, xmlVars>>

NextAnki ==
    \/ ReceiveBatch
    \/ Validate
    \/ AudioWord
    \/ AudioDefinition
    \/ AudioExample
    \/ AddNote
    \/ Respond

SpecAnki == InitAnki /\ [][NextAnki]_vars

NextCleanup == perform_cleanup

SpecCleanup == InitCleanup /\ [][NextCleanup]_vars

C3_DirectUsage == RewritesLine(LineDirect, LineDirectRewritten)

\* C4: alias usage.  After "FROM tb r" has bound r to the target table tb,
\* the later line "WHERE r.status = 1" is left as "WHERE r.ced_todo_status = 1":
\* the column gets the prefix, the alias does not.
C4_AliasUsage ==
    RewritesFile(<<LineDecl, LineUse>>, <<LineDecl, LineUseRewritten>>)

\* C5: the comma/whitespace form.  On "FROM a x, tb t WHERE t.status = 1" the
\* declaration ", tb t" binds the identifier t that follows the table name as
\* the current alias of tb, every bound alias is an identifier, and the usage
\* t.status is rewritten as for a FROM declaration.
C5_CommaFormBindsIdentifier ==
    /\ \A q \in 1..Len(current_aliases) :
          \A k \in 1..Len(current_aliases[q].alias) :
              IsWord(current_aliases[q].alias[k])
    /\ (Observed(LineComma) /\ HasTable(table_column_map, TableTb)) =>
          /\ AliasBound(TableTb)
          /\ AliasOf(TableTb) = <<"t">>
    /\ RewritesFile(<<LineComma>>, <<LineCommaRewritten>>)

\* C6: line-local-forward binding.  The alias r declared on line 2 by
\* "SELECT r.status FROM tb r" rewrites line 2 itself, the usage before the
\* declaration included, and does not rewrite line 1 "WHERE r.status = 1".
C6_LineLocalForward ==
    RewritesFile(<<LineUse, LineUseDecl>>, <<LineUse, LineUseDeclRewritten>>)

\* C7: alias overwrite.  With tb declared as r on line 1 and as s on line 2,
\* "JOIN tb AS s ON s.status = r.status", line 2 has the usage of s rewritten
\* and the usage of r not; and of the two declarations of
\* "FROM tb r JOIN tb s ON s.status = 1" the rightmost, s, is the alias in
\* effect.
C7_AliasOverwrite ==
    /\ RewritesFile(<<LineDecl, LineRedecl>>, <<LineDecl, LineRedeclRewritten>>)
    /\ (Observed(LineTwoDecl) /\ HasTable(table_column_map, TableTb)) =>
          /\ AliasBound(TableTb)
          /\ AliasOf(TableTb) = <<"s">>

\* C8: reserved-word guard.  No bound alias is a reserved word, whatever its
\* case; and a declaration whose candidate alias is the reserved word WHERE,
\* "FROM tb WHERE x = 1" or "FROM a, tb WHERE a.id = 1", leaves tb as it
\* was: on the first line of a file, without an alias.
C8_ReservedWordGuard ==
    /\ \A q \in 1..Len(current_aliases) :
          UpperStr(current_aliases[q].alias) \notin ReservedWords
    /\ (line_num = 1 /\ (Observed(LineReserved) \/ Observed(LineCommaReserved)))
          => ~AliasBound(TableTb)

\* C9: result mapping.  With the column status targeted, for one table or
\* for two, the line <result column="status" property="status"/> is left as
\* <result column="ced_todo_status" property="status"/>: the value of column
\* gets the prefix once, quotes and the property attribute stay.
C9_ResultMapping == RewritesLine(LineResult, LineResultRewritten)

\* ced_todo_tb.ced_todo_status column="ced_todo_status"\n
LineBothRewritten ==
    << "c", "e", "d", "_", "t", "o", "d", "o", "_", "t", "b", ".",
       "c", "e", "d", "_", "t", "o", "d", "o", "_", "s", "t", "a",
       "t", "u", "s", " ", "c", "o", "l", "u", "m", "n", "=", "\"",
       "c", "e", "d", "_", "t", "o", "d", "o", "_", "s", "t", "a",
       "t", "u", "s", "\"", "\n" >>

\* the (file, line) pairs whose line reads otherwise than when the execution
\* began
ChangedLines ==
    { fl \in (1..Len(disk)) \X (1..MaxLines) :
        /\ fl[2] <= Len(run_start_disk[fl[1]].content)
        /\ \/ fl[2] > Len(disk[fl[1]].content)
           \/ disk[fl[1]].content[fl[2]] # run_start_disk[fl[1]].content[fl[2]] }

\* the report key of line num of file f
KeyFor(f, num) == ReportKey(OsPathJoin(scan_directory, disk[f].name), num)

LastColon(key) == LastOf({q \in 1..Len(key) : key[q] = ":"})

PathOf(key) == SubSeq(key, 1, LastColon(key) - 1)

NumOf(key) == ParseInt(SubSeq(key, LastColon(key) + 1, Len(key)))

\* key k1 stands before key k2: by file path first, by line number second
Before(k1, k2) ==
    \/ StrLess(PathOf(k1), PathOf(k2))
    \/ PathOf(k1) = PathOf(k2) /\ NumOf(k1) < NumOf(k2)

Reported(f) == \E num \in 1..MaxLines : KeyFor(f, num) \in modified_report

InFile == pc \in {"observe", "direct", "alias", "resultmap", "record", "write"}

\* C14: read failure.  A file that could not be read is counted as checked
\* and not as modified, has no key in the report, is not written and keeps
\* its content; the failure does not end the execution, and every later file
\* is read in full, as it was when the execution began.
C14_ReadFailure ==
    \A f \in 1..Len(disk) :
        <<"read", f>> \in io_failed =>
            /\ f <= file_idx
            /\ f <= file_count
            /\ modified_file_count <= file_count - 1
            /\ ~Reported(f)
            /\ <<"write", f>> \notin io_failed
            /\ disk[f].content = run_start_disk[f].content
            /\ f = file_idx => (pc \in {"walk", "done"} /\ error = "")
            /\ (f < file_idx /\ InFile) =>
                  /\ lines = run_start_disk[file_idx].content
                  /\ <<"read", file_idx>> \notin io_failed

\* the first file could not be read, and the second, which holds a line, has
\* been read and taken through its loop to the write-back
C14_Witness ==
    /\ <<"read", 1>> \in io_failed
    /\ file_idx = 2
    /\ pc = "write"
    /\ lines # <<>>
    /\ lines = disk[2].content

\* the files of which some line reads otherwise than when the execution began
ChangedFiles == {fl[1] : fl \in ChangedLines}

\* C15: write only on change.  With tb.status targeted and every file
\* readable and writable, a first file that holds only "FROM tb WHERE x = 1",
\* which no pass matches, is gone through without an error, keeps its
\* content and gets no key in the report; and the files counted as modified
\* are the files of which a line was changed.
C15_WriteOnlyOnChange ==
    /\ RewritesFile(<<LineReserved>>, <<LineReserved>>)
    /\ (Ended /\ io_failed = {} /\ Targets(TableTb, ColumnStatus)
              /\ run_start_disk[1].content = <<LineReserved>>) =>
          /\ ~Reported(1)
          /\ modified_file_count = Cardinality(ChangedFiles)

\* C16: empty target map.  With an empty target map no pass changes a line,
\* new_lines repeats the lines read, no file is written or counted as
\* modified, nothing raises and the report stays empty; and main, which
\* returns before its walk on an empty map, looks at no file.
C16_EmptyTargetMap ==
    table_column_map = <<>> =>
        /\ error = ""
        /\ disk = run_start_disk
        /\ modified_report = {}
        /\ modified_file_count = 0
        /\ ~file_modified
        /\ ~line_was_modified
        /\ modified_line = original_line
        /\ new_lines = SubSeq(lines, 1, Len(new_lines))
        /\ \A f \in 1..Len(disk) : <<"write", f>> \notin io_failed
        /\ entry = "main" => (pc \in {"start", "done"} /\ file_count = 0)

\* a caller has handed both files over with an empty map, the first holding
\* the direct usage and the result mapping that a map with tb.status targets
C16_Witness ==
    /\ entry = "function"
    /\ table_column_map = <<>>
    /\ pc = "walk"
    /\ file_idx = Len(disk)
    /\ io_failed = {}
    /\ run_start_disk[1].content = <<LineDirect, LineResult>>
    /\ new_lines = disk[2].content

\* the two files read as given when the execution began
StartedWith(first, second) ==
    /\ run_start_disk[1].content = first
    /\ run_start_disk[2].content = second

ExpectedContent(f) ==
    NewLinesOf(TableTb, ColumnStatus, run_start_disk[f].content)

\* the keys of the lines they are to modify, over all files
ExpectedKeys ==
    UNION { KeysOf(scan_directory, disk[f].name, run_start_disk[f].content,
                   ExpectedContent(f)) : f \in 1..Len(disk) }

DirectApplied == pc = "direct_applied"

\* the qualified name the substituted pattern looks for: tb.status or r.status
UsageToken ==
    (IF DirectApplied THEN TableTb ELSE <<"r">>) \o <<".">> \o ColumnStatus

\* how much longer a usage gets when it is rewritten: the marker prefix before
\* the table and before the column, or before the column only
Inserted == IF DirectApplied THEN 2 * Len(PREFIX) ELSE Len(PREFIX)

\* the qualified name stands in the original line at position pos, in any case
UsageAt(pos) ==
    /\ pos + Len(UsageToken) - 1 <= Len(original_line)
    /\ \A k \in 1..Len(UsageToken) :
          Upper(original_line[pos + k - 1]) = Upper(UsageToken[k])

\* an identifier character stands right before it or right after it
Guarded(pos) ==
    \/ pos > 1 /\ IsWord(original_line[pos - 1])
    \/ /\ pos + Len(UsageToken) <= Len(original_line)
       /\ IsWord(original_line[pos + Len(UsageToken)])

GuardedUsages == {pos \in 1..Len(original_line) : UsageAt(pos) /\ Guarded(pos)}

FreeUsages == {pos \in 1..Len(original_line) : UsageAt(pos) /\ ~Guarded(pos)}

\* where the text at pos of the original line stands once the free usages
\* before it have been rewritten
Moved(pos) == pos + Inserted * Cardinality({u \in FreeUsages : u < pos})

\* C19: word boundaries.  In a text that does not hold the marker prefix, the
\* direct pattern of (tb, status) and the alias pattern of (r, status) leave
\* every usage that has an identifier character right before its qualifier or
\* right after its column as it is: the text grows by the prefixes of the
\* other usages only, each such usage is found unchanged behind them, and a
\* text with no other usage is not modified at all.
C19_WordBoundaries ==
    pc \in {"direct_applied", "alias_applied"} =>
        /\ Len(modified_line) =
              Len(original_line) + Inserted * Cardinality(FreeUsages)
        /\ \A pos \in GuardedUsages :
              SubSeq(modified_line, Moved(pos),
                     Moved(pos) + Len(UsageToken) - 1)
                  = SubSeq(original_line, pos, pos + Len(UsageToken) - 1)
        /\ FreeUsages = {} =>
              (modified_line = original_line /\ ~line_was_modified)

\* the direct pattern has been substituted in "tb.status,xtb.status": the
\* first usage is rewritten, the second, behind an x, is not
C19_Witness ==
    /\ DirectApplied
    /\ original_line = << "t", "b", ".", "s", "t", "a", "t", "u", "s", ",",
                          "x", "t", "b", ".", "s", "t", "a", "t", "u", "s" >>
    /\ FreeUsages = {1}
    /\ GuardedUsages = {12}
    /\ line_was_modified

\* alias observation alone, in order, over the first n of the lines read
RECURSIVE AliasesAfter(_, _)
AliasesAfter(read, n) ==
    IF n = 0
    THEN <<>>
    ELSE ObserveTables(table_column_map, 1, read[n], AliasesAfter(read, n - 1))

RECURSIVE InsertOnly(_, _)
InsertOnly(before, after) ==
    IF Len(after) < Len(before) + Len(PREFIX)
    THEN after = before
    ELSE \E q \in 1..(Len(after) - Len(PREFIX) + 1) :
            /\ SubSeq(after, q, q + Len(PREFIX) - 1) = PREFIX
            /\ InsertOnly(before,
                          SubSeq(after, 1, q - 1)
                              \o SubSeq(after, q + Len(PREFIX), Len(after)))

Marked(str) ==
    \E q \in 1..(Len(str) - Len(PREFIX) + 1) :
        SubSeq(str, q, q + Len(PREFIX) - 1) = PREFIX

\* a name as the target map is to hold it
StoredName(str) == str # <<>> /\ ~Marked(str)

\* C23: target map invariant.  Whatever the target list, names holding the
\* marker prefix once, twice, nested or alone included, every table name and
\* every column name of the target map that parse_target_columns makes of it
\* is non-empty and does not hold the marker prefix.
C23_TargetMapInvariant ==
    table_column_map = parse_target_columns(target_column_specs) =>
        \A idx \in 1..Len(table_column_map) :
            /\ StoredName(table_column_map[idx].table)
            /\ \A q \in 1..Len(table_column_map[idx].columns) :
                  StoredName(table_column_map[idx].columns[q])

\* observation alone, over the first n of the lines read, binds an alias of
\* the table
BoundAfter(read, n, table) ==
    \E q \in 1..Len(AliasesAfter(read, n)) :
        AliasesAfter(read, n)[q].table = table

\* C24: alias bindings are never removed within a file.  While a file is
\* gone through, a table that had an alias after an earlier line of the file
\* has one now; and with tb.status targeted and every file readable and
\* writable, after "SELECT r.status FROM tb r" on line 1 the usage of the
\* separate line 2, "WHERE r.status = 1", is rewritten as well as that of
\* line 1.
C24_AliasKept ==
    /\ (pc \in {"observe", "direct", "alias", "resultmap", "record"}
           /\ line_num >= 2) =>
          \A n \in 1..(line_num - 1) :
              BoundAfter(lines, n, TableTb) => AliasBound(TableTb)
    /\ RewritesFile(<<LineUseDecl, LineUse>>,
                    <<LineUseDeclRewritten, LineUseRewritten>>)

\* the answer is yes in any case, the directory is there and the target list
\* parses to a map that is not empty
GatePassed ==
    /\ LowerStr(confirm) = <<"y", "e", "s">>
    /\ is_dir
    /\ parse_target_columns(target_column_specs) # <<>>

\* C25: main reads or writes no XML file unless the answer to the prompt is
\* 'yes' in any case, the scan directory exists and the parsed target map is
\* not empty; in every other case the run ends with all files unchanged and
\* no report.
C25_ConfirmationGate ==
    (entry = "main" /\ ~GatePassed) =>
        /\ pc \in {"start", "done"}
        /\ error = ""
        /\ file_idx = 0
        /\ file_count = 0
        /\ io_failed = {}
        /\ lines = <<>>
        /\ disk = run_start_disk
        /\ modified_file_count = 0
        /\ modified_report = {}
        /\ sorted_report = <<>>

\* main has returned on the answer "no", the first file holding the direct
\* usage of the column the target list names
C25_Witness ==
    /\ entry = "main"
    /\ pc = "done"
    /\ confirm = <<"n", "o">>
    /\ is_dir
    /\ target_column_specs = <<SpecTbStatus>>
    /\ Len(disk) = 2
    /\ disk[1].content = <<LineDirect>>
    /\ file_count = 0

\* C26: cleanup_unused_audio_files deletes a local .mp3 file only if the file
\* is absent from Anki's media collection; when the media list cannot be
\* fetched from Anki (no list is cached after the cleanup of a server that
\* had none), no local audio file is deleted.
C26_CleanupKeepsAnkiFiles ==
    anki_pc = "exited" =>
        /\ (audio_dir_start \ audio_dir) \cap anki_media = {}
        /\ anki_media_cache = None => audio_dir = audio_dir_start

EntriesOf(list, word) ==
    Cardinality({q \in 1..Len(list) : list[q].word = word})

\* the numbers of the words some call was made for
WordsCalled == {calls[k].word : k \in 1..Len(calls)}

\* C28: add_words_batch accounts for every word: when the loop is over, each
\* input word is in exactly one of the success and failed lists (their
\* lengths add up to the number of words), and a failure on one word never
\* keeps the later words from being processed: while the loop runs, every
\* word before the one at hand is recorded, and in the end a call was made
\* for every word.
C28_EveryWordAccounted ==
    /\ anki_pc \in {"validate", "audio_word", "audio_definition",
                    "audio_example", "add_note"} =>
          /\ processed_count \in 1..Len(words_to_process)
          /\ Len(results.success) + Len(results.failed) = processed_count - 1
    /\ anki_pc \in {"respond", "responded"} =>
          /\ Len(results.success) + Len(results.failed)
                 = Len(words_to_process)
          /\ \A q \in 1..Len(words_to_process) :
                EntriesOf(results.success, words_to_process[q].word)
                    + EntriesOf(results.failed, words_to_process[q].word)
                = EntriesOf(words_to_process, words_to_process[q].word)
          /\ WordsCalled = 1..Len(words_to_process)

\* the request of cat and Hot Dog is answered: add_note raised
\* ConnectionError for cat, and the note of Hot Dog was added after it
C28_Witness ==
    /\ anki_pc = "responded"
    /\ results.failed = <<[word |-> WordCat, error |-> "ConnectionError"]>>
    /\ results.success = <<[word |-> WordHotDog, note_id |-> 2]>>

\* the calls that lead to the note of a word, in the order of the loop body
StepsOf(data) ==
    <<"validate_word_data", "create_audio_file word",
      "create_audio_file definition">>
        \o (IF data.example # <<>> THEN <<"create_audio_file example">>
            ELSE <<>>)
        \o <<"add_note">>

\* the call of number k is add_note for a word: the calls before it are the
\* steps for this word, each returned without error
NoteInOrder(k, steps) ==
    /\ k >= Len(steps)
    /\ \A j \in 1..(Len(steps) - 1) :
          calls[k - Len(steps) + j] =
              [word |-> calls[k].word, call |-> steps[j], ok |-> TRUE]

\* the numbers of the words a call of the kind (ok or not) was made for
WordsWith(names, ok) ==
    { calls[k].word :
        k \in {q \in 1..Len(calls) : calls[q].call \in names
                                       /\ calls[q].ok = ok} }

\* C29: a note is added for a word only after its tags passed validation and
\* audio creation returned without error for the word, the definition and,
\* when there is one, the example, in that order; a word whose validation or
\* audio step fails is recorded as failed and add_note is never called for
\* it.
C29_NoteAfterValidationAndAudio ==
    /\ \A k \in 1..Len(calls) :
          calls[k].call = "add_note" =>
              NoteInOrder(k, StepsOf(words_to_process[calls[k].word]))
    /\ WordsWith({"validate_word_data", "create_audio_file word",
                  "create_audio_file definition",
                  "create_audio_file example"}, FALSE)
           \cap WordsWith({"add_note"}, TRUE) = {}
    /\ WordsWith({"validate_word_data", "create_audio_file word",
                  "create_audio_file definition",
                  "create_audio_file example"}, FALSE)
           \cap WordsWith({"add_note"}, FALSE) = {}
    /\ Len(results.success) = Cardinality(WordsWith({"add_note"}, TRUE))
    /\ Len(results.failed) =
           Cardinality(WordsWith({"validate_word_data",
                                  "create_audio_file word",
                                  "create_audio_file definition",
                                  "create_audio_file example", "add_note"},
                                 FALSE))

\* the request of Hot Dog and cat is answered: the note of Hot Dog was added
\* after its three audio files, and the audio of cat failed
C29_Witness ==
    /\ anki_pc = "responded"
    /\ Len(calls) = 7
    /\ calls[4] = [word |-> 1, call |-> "create_audio_file example",
                   ok |-> TRUE]
    /\ calls[5] = [word |-> 1, call |-> "add_note", ok |-> TRUE]
    /\ calls[7] = [word |-> 2, call |-> "create_audio_file word",
                   ok |-> FALSE]
    /\ results.success = <<[word |-> WordHotDog, note_id |-> 1]>>
    /\ results.failed =
           <<[word |-> WordCat, error |-> "Audio generation failed."]>>

=============================================================================
